---- MODULE Spec2Model ----
(***************************************************************************)
(* Model of the obsidian-heatmap plugin: the Svelte heatmap component      *)
(* (src/unnamed/part_000: props, onMount, refreshSVG, generateSVG, the     *)
(* reactive colorScale, the tooltip) and the plugin that owns a list of    *)
(* such components (src/src/main.ts).                                      *)
(*                                                                         *)
(* Numbers.  Pixel quantities are JavaScript numbers; the model keeps them *)
(* exact as reduced fractions [num, den].  A Date is an integer count of   *)
(* ticks since 1970-01-01 00:00 local time, TicksPerDay ticks to the day   *)
(* (the tick stands for the millisecond); the local zone has no DST.       *)
(* Colours are <<r, g, b>> triples.                                        *)
(***************************************************************************)
EXTENDS Integers, Sequences, FiniteSets, TLC

VARIABLES
    mounted,      \* the component has been constructed (onMount has run)
    dataPoints,   \* prop: sequence of [date, count]
    width,        \* prop
    fontColor,    \* prop
    fontSize,     \* prop
    cellSize,     \* let cellSize
    height,       \* let height
    weekCount,    \* the weekCount local of the last completed generateSVG
    colorScale,   \* the value held by the reactive declaration $: colorScale
    dirty,        \* dataPoints is invalidated and the component's update is scheduled
    svg,          \* svgRef's children: <<>> or <<group>>
    tooltipRef,   \* the tooltip element: text, visibility, display, left, top
    layout,       \* the DOM measurements read by the last tooltip.show
    console,      \* the diagnostics written by the last handler that ran
    call,         \* the last entry point invoked on the component, with its width
    loaded,       \* plugin: between onload and onunload
    heatmaps,     \* plugin: this.heatmaps
    instances,    \* plugin: every component ever created, with its status
    readableLineLength, \* plugin: cached config
    showLineNumber,     \* plugin: cached config
    refreshedDestroyed  \* refreshSVG has been invoked on a destroyed component

compVars == <<mounted, dataPoints, width, fontColor, fontSize, cellSize, height,
              weekCount, colorScale, dirty, svg, console, call>>
tipVars == <<tooltipRef, layout>>
pluginVars == <<loaded, heatmaps, instances, readableLineLength, showLineNumber,
                refreshedDestroyed>>
vars == <<compVars, tipVars, pluginVars>>

----------------------------------------------------------------------------
(* Bounds of the model *)

TicksPerDay == 2
SpanDays == 15
MaxDaily == 9
MaxCount == 20
MaxSurface == 12
MaxTooltip == 14
MaxHeatmaps == 3

(* Program constants *)

dayCount == 7
cellGap == 3
MaxCellSize == 14
DefaultWidth == 888
DefaultFontSize == 14
DomainFloor == 10

\* 2024-01-01, a Monday, in days since 1970-01-01
Jan1st2024 == (2024 - 1970) * 365 + 13

----------------------------------------------------------------------------
(* Exact arithmetic on JavaScript numbers *)

Abs(n) == IF n < 0 THEN -n ELSE n

Max2(a, b) == IF a < b THEN b ELSE a

Min2(a, b) == IF a < b THEN a ELSE b

SetMax(S) == CHOOSE m \in S : \A k \in S : k <= m

SetMin(S) == CHOOSE m \in S : \A k \in S : m <= k

RECURSIVE GCD(_, _)
GCD(a, b) == IF b = 0 THEN a ELSE GCD(b, a % b)

\* The fraction n/d in lowest terms, the denominator positive
Rat(n, d) ==
    LET reduced(p, q, g) == [num |-> p \div g, den |-> q \div g]
    IN  IF d < 0 THEN reduced(-n, -d, GCD(Abs(n), Abs(d)))
                 ELSE reduced(n, d, GCD(Abs(n), Abs(d)))

Int2Rat(n) == [num |-> n, den |-> 1]

RatAdd(a, b) == Rat(a.num * b.den + b.num * a.den, a.den * b.den)

RatSub(a, b) == Rat(a.num * b.den - b.num * a.den, a.den * b.den)

RatMul(a, b) == Rat(a.num * b.num, a.den * b.den)

RatDiv(a, b) == Rat(a.num * b.den, a.den * b.num)

RatLT(a, b) == a.num * b.den < b.num * a.den

RatLE(a, b) == a.num * b.den <= b.num * a.den

RatMin(a, b) == IF RatLT(b, a) THEN b ELSE a

RatMax(a, b) == IF RatLT(a, b) THEN b ELSE a

\* Math.round: the nearest integer, halves towards +Infinity
MathRound(a) == (2 * a.num + a.den) \div (2 * a.den)

----------------------------------------------------------------------------
(* Dates: Date.getDay, Date.toDateString and the d3-time intervals *)

\* Date.prototype.getDay: 0 = Sunday; 1970-01-01 was a Thursday
getDay(date) == ((date \div TicksPerDay) + 4) % 7

\* Date.prototype.toDateString: the calendar day, the time of day dropped
toDateString(date) == date \div TicksPerDay

\* timeDay.floor: setHours(0, 0, 0, 0)
timeDayFloor(date) == date - (date % TicksPerDay)

\* interval.ceil: floor(date - 1), then one step forward
timeDayCeil(date) == timeDayFloor(date - 1) + TicksPerDay

\* timeMonday.floor: back to the Monday, at midnight
timeSundayFloor(date) ==
    timeDayFloor(date) - ((getDay(date) + 7 - 0) % 7) * TicksPerDay

timeMondayFloor(date) ==
    timeDayFloor(date) - ((getDay(date) + 7 - 1) % 7) * TicksPerDay

\* timeMonday.count(start, end): both floored, Math.floor of the weeks between
timeMondayCount(start, end) ==
    (timeMondayFloor(end) - timeMondayFloor(start)) \div (7 * TicksPerDay)

\* interval.range's do-while loop, from a floored start
RECURSIVE daysFrom(_, _)
daysFrom(start, stop) ==
    <<start>> \o (IF start + TicksPerDay < stop
                  THEN daysFrom(start + TicksPerDay, stop)
                  ELSE <<>>)

\* timeDays(start, stop) = timeDay.range: ceil(start) <= day < stop
timeDays(start, stop) ==
    LET first == timeDayCeil(start)
    IN  IF ~(first < stop) THEN <<>> ELSE daysFrom(first, stop)

\* The day of the March-based year of a Date, from which its civil month
\* and day of month follow
civilDayOfYear(date) ==
    LET z   == (date \div TicksPerDay) + 719468
        doe == z % 146097
        yoe == (doe - doe \div 1460 + doe \div 36524 - doe \div 146096) \div 365
    IN  doe - (365 * yoe + yoe \div 4 - yoe \div 100)

\* chineseMonths[timeFormat("%b")(date)]: "1月" .. "12月", as the number
chineseMonth(date) ==
    LET mp == (5 * civilDayOfYear(date) + 2) \div 153
    IN  IF mp < 10 THEN mp + 3 ELSE mp - 9

\* Date.prototype.getDate: the day of the month, 1..31
getDate(date) ==
    LET doy == civilDayOfYear(date)
        mp  == (5 * doy + 2) \div 153
    IN  doy - (153 * mp + 2) \div 5 + 1

\* timeMonth.floor: setDate(1), setHours(0, 0, 0, 0)
timeMonthFloor(date) == timeDayFloor(date) - (getDate(date) - 1) * TicksPerDay

\* timeMonth.offset(date, 1) from a floored month, floored again
timeMonthNext(date) == timeMonthFloor(date + 31 * TicksPerDay)

timeMonthCeil(date) == timeMonthNext(timeMonthFloor(date - 1))

RECURSIVE monthsFrom(_, _)
monthsFrom(start, stop) ==
    <<start>> \o (IF timeMonthNext(start) < stop
                  THEN monthsFrom(timeMonthNext(start), stop)
                  ELSE <<>>)

\* timeMonth.range(start, stop): ceil(start) <= first of month < stop
timeMonthRange(start, stop) ==
    LET first == timeMonthCeil(start)
    IN  IF ~(first < stop) THEN <<>> ELSE monthsFrom(first, stop)

----------------------------------------------------------------------------
(* The colour scale: d3 scaleLinear().domain(..).range(..).clamp(true) *)

\* .range(["#ebedf0", "#7bc96f", "#196127"])
ScaleRangeSwapped == << <<235, 237, 240>>, <<25, 97, 39>>, <<123, 201, 111>> >>

ScaleRange == << <<235, 237, 240>>, <<123, 201, 111>>, <<25, 97, 39>> >>

counts(dp) == {dp[i].count : i \in 1..Len(dp)}

\* The reactive declaration's right-hand side.  Math.max() of no arguments is
\* -Infinity: negInf marks a last control point of -Infinity (d2 is then unused).
ScaleOf(dp) ==
    [d0     |-> Int2Rat(0),
     d1     |-> Rat(SetMax(counts(dp) \cup {DomainFloor}), 2),
     d2     |-> IF dp = <<>> THEN Int2Rat(0) ELSE Int2Rat(SetMax(counts(dp))),
     negInf |-> dp = <<>>]

\* d3-scale normalize(a, b): x -> (x - a) / (b - a), the constant 0.5 when b = a
normalize(a, b, x) ==
    LET over(span) == IF span.num = 0 THEN Rat(1, 2) ELSE RatDiv(RatSub(x, a), span)
    IN  over(RatSub(b, a))

\* rgb.toString's clampi: Math.max(0, Math.min(255, Math.round(v) || 0))
clampi(v) == Max2(0, Min2(255, MathRound(v)))

\* d3-interpolate interpolateRgb(a, b)(t), as the colour the string denotes
interpolateRgb(a, b, t) ==
    [c \in 1..3 |->
        clampi(RatAdd(Int2Rat(a[c]), RatMul(t, Int2Rat(b[c] - a[c]))))]

\* scale(x) for a three-point domain (polymap) with clamping.
\* With a last control point of -Infinity the domain is descending: polymap
\* reverses it to [-Infinity, d1, 0], the clamp is to [-Infinity, 0], the first
\* piece is chosen and its normalize gives (x + Infinity) / Infinity = NaN, which
\* interpolateRgb turns into rgb(0, 0, 0).
ApplyScale(scale, x) ==
    IF scale.negInf THEN <<0, 0, 0>>
    ELSE
      LET \* clamper(domain[0], domain[2])
          clamp(a, b) == RatMax(a, RatMin(b, Int2Rat(x)))
          \* i = bisect(domain, x, 1, 2) - 1, then r[i](d[i](x))
          piecewise(xc) ==
              IF ~RatLE(scale.d1, xc)
              THEN interpolateRgb(ScaleRange[1], ScaleRange[2],
                                  normalize(scale.d0, scale.d1, xc))
              ELSE interpolateRgb(ScaleRange[2], ScaleRange[3],
                                  normalize(scale.d1, scale.d2, xc))
      IN  piecewise(clamp(RatMin(scale.d0, scale.d2), RatMax(scale.d0, scale.d2)))

Green(color) == color[2]

----------------------------------------------------------------------------
(* The component: generateSVG and what it calls *)

RECURSIVE SumCounts(_)
SumCounts(dp) == IF dp = <<>> THEN 0 ELSE Head(dp).count + SumCounts(Tail(dp))

\* dataPoints.find(d => d.date.toDateString() === date.toDateString()):
\* the count of the first match, 0 when there is none
CountOn(dp, date) ==
    LET hits == {i \in 1..Len(dp) : toDateString(dp[i].date) = toDateString(date)}
    IN  IF hits = {} THEN 0 ELSE dp[SetMin(hits)].count

generateYearLegendSVG(dp, cs, fc) ==
    [yearCount  |-> SumCounts(dp),
     y          |-> RatMul(Int2Rat(-2), cs),
     fontSize   |-> RatMul(Rat(3, 2), cs),
     fill       |-> fc]

generateMonthLabelsSVG(startDate, endDate, cs, fc) ==
    LET labels(monthLabels, monthLabelY, step, size) ==
            [k \in 1..Len(monthLabels) |->
                [month |-> chineseMonth(monthLabels[k]),
                 x     |-> RatMul(Int2Rat(timeMondayCount(startDate, monthLabels[k])),
                                  step),
                 y     |-> monthLabelY,
                 fontSize |-> size,
                 fill  |-> fc]]
    IN  labels(timeMonthRange(startDate, endDate),
               RatAdd(RatMul(Int2Rat(dayCount + 2), cs),
                      Int2Rat((dayCount - 2) * cellGap)),
               RatAdd(cs, Int2Rat(cellGap)),
               RatSub(cs, Int2Rat(1)))

\* The four labels; the label of index i = k - 1 is at y = (2i + 0.5)(cellSize + cellGap)
generateWeekLabelsSVG(wc, cs, fc) ==
    LET labels(weekLabelX, step, size) ==
            [k \in 1..4 |->
                [x        |-> weekLabelX,
                 y        |-> RatMul(Rat(4 * k - 3, 2), step),
                 fontSize |-> size,
                 fill     |-> fc]]
    IN  labels(RatAdd(RatMul(cs, Int2Rat(wc + 2)), Int2Rat(cellGap * (wc - 1))),
               RatAdd(cs, Int2Rat(cellGap)),
               RatSub(cs, Int2Rat(1)))

generateCellsSVG(startDate, endDate, dp, cs, scale) ==
    LET cell(date, week, day, count, step) ==
            [date  |-> date,
             count |-> count,
             week  |-> week,
             day   |-> day,
             x     |-> RatMul(Int2Rat(week), step),
             y     |-> RatMul(Int2Rat(day), step),
             size  |-> cs,
             fill  |-> ApplyScale(scale, count)]
        cells(days, step) ==
            [k \in 1..Len(days) |->
                cell(days[k],
                     timeMondayCount(startDate, days[k]),
                     \* Monday is 0
                     (getDay(days[k]) + 6) % 7,
                     CountOn(dp, days[k]),
                     step)]
    IN  cells(timeDays(startDate, endDate), RatAdd(cs, Int2Rat(cellGap)))

\* generateSVG: what it leaves in svg, cellSize, height, weekCount and console,
\* given the props, the colour scale it reads and the values it may leave alone
generateSVG(dp, w, fc, scale, cs0, h0, wc0) ==
    IF dp = <<>>
    THEN [svg |-> <<>>, cellSize |-> cs0, height |-> h0, weekCount |-> wc0,
          console |-> <<"Heatmap no data available">>]
    ELSE
      LET startDate == dp[1].date
          endDate   == dp[Len(dp)].date
          group(wc, cs) ==
              [marginTop   |-> RatMul(Rat(7, 2), cs),
               yearLegend  |-> generateYearLegendSVG(dp, cs, fc),
               monthLabels |-> generateMonthLabelsSVG(startDate, endDate, cs, fc),
               weekLabels  |-> generateWeekLabelsSVG(wc, cs, fc),
               cells       |-> generateCellsSVG(startDate, endDate, dp, cs, scale)]
          rendered(wc, cs, h) ==
              [svg |-> <<group(wc, cs)>>, cellSize |-> cs, height |-> h,
               weekCount |-> wc, console |-> <<"SVG done", w, h>>]
          sized(wc, cs) ==
              rendered(wc, cs,
                       RatAdd(RatMul(Rat(2 * dayCount + 11, 2), cs),
                              Int2Rat((dayCount - 1) * cellGap)))
          spanning(wc) ==
              sized(wc, RatMin(Rat(w - (wc - 1) * cellGap, wc + 2),
                               Int2Rat(MaxCellSize)))
      IN  spanning(timeMondayCount(startDate, endDate) + 1)

----------------------------------------------------------------------------
(* The component's operations *)

\* new AppComponent({target, props}): the instance script runs with the props
\* (cellSize = fontSize, height = 0), the reactive declaration is evaluated,
\* the markup is created (the tooltip with display: none) and onMount runs.
Mount(dp, w, fc, fs) ==
    /\ ~mounted
    /\ \E scale \in {ScaleOf(dp)} :
       \E r \in {generateSVG(dp, w, fc, scale, Int2Rat(fs), Int2Rat(0), 0)} :
           /\ mounted' = TRUE
           /\ dataPoints' = dp
           /\ width' = w
           /\ fontColor' = fc
           /\ fontSize' = fs
           /\ colorScale' = scale
           /\ dirty' = FALSE
           /\ svg' = r.svg
           /\ cellSize' = r.cellSize
           /\ height' = r.height
           /\ weekCount' = r.weekCount
           /\ console' = <<r.console, <<"Heatmap component mounted">> >>
           /\ call' = [op |-> "mount", newWidth |-> w]
    /\ UNCHANGED <<tipVars, pluginVars>>

\* refreshSVG with the guard on zero only (a mutant of refreshSVG)
refreshSVGZeroAccepted(newDataPoints, newWidth, newFontColor, newFontSize) ==
    /\ mounted
    /\ call' = [op |-> "refreshSVG", newWidth |-> newWidth]
    /\ IF newWidth < 0
       THEN /\ console' = << <<"newWidth illegal!", newWidth>> >>
            /\ UNCHANGED <<dataPoints, width, fontColor, fontSize, colorScale, dirty,
                           svg, cellSize, height, weekCount>>
       ELSE \E r \in {generateSVG(newDataPoints, newWidth, newFontColor, colorScale,
                                   cellSize, height, weekCount)} :
                /\ dataPoints' = newDataPoints
                /\ width' = newWidth
                /\ fontColor' = newFontColor
                /\ fontSize' = newFontSize
                /\ svg' = r.svg
                /\ cellSize' = r.cellSize
                /\ height' = r.height
                /\ weekCount' = r.weekCount
                /\ console' = <<r.console>>
                /\ dirty' = TRUE
                /\ UNCHANGED colorScale
    /\ UNCHANGED <<mounted, tipVars, pluginVars>>

\* refreshSVG.  The assignment to dataPoints only marks the component dirty
\* and schedules its update: generateSVG runs at once and reads the colorScale
\* of the last update.  The call returns with colorScale as it was; a further
\* call made before the update runs reads that same colorScale.
refreshSVG(newDataPoints, newWidth, newFontColor, newFontSize) ==
    /\ mounted
    /\ call' = [op |-> "refreshSVG", newWidth |-> newWidth]
    /\ IF newWidth <= 0
       THEN /\ console' = << <<"newWidth illegal!", newWidth>> >>
            /\ UNCHANGED <<dataPoints, width, fontColor, fontSize, colorScale, dirty,
                           svg, cellSize, height, weekCount>>
       ELSE \E r \in {generateSVG(newDataPoints, newWidth, newFontColor, colorScale,
                                   cellSize, height, weekCount)} :
                /\ dataPoints' = newDataPoints
                /\ width' = newWidth
                /\ fontColor' = newFontColor
                /\ fontSize' = newFontSize
                /\ svg' = r.svg
                /\ cellSize' = r.cellSize
                /\ height' = r.height
                /\ weekCount' = r.weekCount
                /\ console' = <<r.console>>
                /\ dirty' = TRUE
                /\ UNCHANGED colorScale
    /\ UNCHANGED <<mounted, tipVars, pluginVars>>

\* The scheduled update of the component (a microtask): the reactive
\* declaration $: colorScale is re-evaluated from the current dataPoints.
\* generateSVG is not run again.
flush ==
    /\ mounted
    /\ dirty
    /\ colorScale' = ScaleOf(dataPoints)
    /\ dirty' = FALSE
    /\ call' = [op |-> "flush", newWidth |-> width]
    /\ UNCHANGED <<mounted, dataPoints, width, fontColor, fontSize, svg, cellSize,
                   height, weekCount, console, tipVars, pluginVars>>

\* tooltip.show without the right-edge branch (a mutant of tooltipShow)
tooltipShowLeftOnly(content, cellX, cellY, svgRect, tooltipWidth, tooltipHeight) ==
    LET centred == Int2Rat(cellX - svgRect.x)
        half    == Rat(tooltipWidth, 2)
        isNearLeftEdge  == RatLT(RatSub(centred, half), Int2Rat(0))
        adjustedX == IF isNearLeftEdge THEN half ELSE centred
    IN  [textContent |-> content,
         visibility  |-> "visible",
         display     |-> "block",
         left        |-> adjustedX,
         top         |-> cellY - svgRect.y - tooltipHeight - cellGap + 1]

\* tooltip.show(content, cellX, cellY) under the measurements it reads
tooltipShow(content, cellX, cellY, svgRect, tooltipWidth, tooltipHeight) ==
    LET centred == Int2Rat(cellX - svgRect.x)
        half    == Rat(tooltipWidth, 2)
        isNearLeftEdge  == RatLT(RatSub(centred, half), Int2Rat(0))
        isNearRightEdge == RatLT(Int2Rat(svgRect.width), RatAdd(centred, half))
        adjustedX == IF isNearLeftEdge THEN half
                     ELSE IF isNearRightEdge
                          THEN RatSub(Int2Rat(svgRect.width), half)
                          ELSE centred
    IN  [textContent |-> content,
         visibility  |-> "visible",
         display     |-> "block",
         left        |-> adjustedX,
         top         |-> cellY - svgRect.y - tooltipHeight - cellGap + 1]

\* The mouseover listener of the k-th rect (an event: no update is pending)
mouseover(k, targetRect, svgRect, tooltipWidth, tooltipHeight) ==
    /\ mounted
    /\ ~dirty
    /\ svg # <<>>
    /\ k \in 1..Len(svg[1].cells)
    /\ LET cell == svg[1].cells[k]
       IN  tooltipRef' = tooltipShow(<<cell.count, cell.date>>,
                                     targetRect.x, targetRect.y,
                                     svgRect, tooltipWidth, tooltipHeight)
    /\ layout' = [svgRect |-> svgRect, tooltipWidth |-> tooltipWidth,
                  tooltipHeight |-> tooltipHeight, targetRect |-> targetRect]
    /\ UNCHANGED <<compVars, pluginVars>>

\* The mouseout listener of a rect: tooltip.hide()
mouseout ==
    /\ mounted
    /\ ~dirty
    /\ svg # <<>>
    /\ svg[1].cells # <<>>
    /\ tooltipRef' = [tooltipRef EXCEPT !.visibility = "hidden"]
    /\ UNCHANGED <<layout, compVars, pluginVars>>

----------------------------------------------------------------------------
(* The plugin.  A component is kept here as its status and its width prop. *)

Ids == 1..MaxHeatmaps

\* heatmap.refreshSVG(...) as the plugin sees it
instanceRefreshed(inst, w) == IF w > 0 THEN [inst EXCEPT !.width = w] ELSE inst

\* refreshHeatmaps: this.heatmaps.forEach(heatmap => heatmap.refreshSVG(...))
refreshHeatmaps(w) ==
    /\ instances' = [id \in Ids |->
                        IF \E i \in 1..Len(heatmaps) : heatmaps[i] = id
                        THEN instanceRefreshed(instances[id], w)
                        ELSE instances[id]]
    /\ refreshedDestroyed' =
          (refreshedDestroyed \/
           \E i \in 1..Len(heatmaps) : instances[heatmaps[i]].status = "destroyed")

\* The 'heatmap' code block processor: a component is created and pushed, and
\* a MarkdownRenderChild is added for it
codeBlockProcessor(w) ==
    /\ loaded
    /\ \E id \in Ids :
          /\ instances[id].status = "none"
          /\ \A other \in Ids : other < id => instances[other].status # "none"
          /\ instances' = [instances EXCEPT
                              ![id] = [status |-> "live", child |-> TRUE, width |-> w]]
          /\ heatmaps' = Append(heatmaps, id)
    /\ UNCHANGED <<loaded, readableLineLength, showLineNumber, refreshedDestroyed,
                   compVars, tipVars>>

\* this.heatmaps.splice(index, 1) for index = indexOf(heatmap) > -1
spliced(list, id) ==
    LET hits == {i \in 1..Len(list) : list[i] = id}
    IN  IF hits = {} THEN list
        ELSE LET index == SetMin(hits)
             IN  [i \in 1..(Len(list) - 1) |->
                     IF i < index THEN list[i] ELSE list[i + 1]]

\* child.onunload with the splice left out (a mutant of childOnunload)
childOnunloadNoSplice(id) ==
    /\ instances[id].child
    /\ instances' = [instances EXCEPT ![id].status = "destroyed", ![id].child = FALSE]
    /\ UNCHANGED <<heatmaps, loaded, readableLineLength, showLineNumber,
                   refreshedDestroyed, compVars, tipVars>>

\* child.onunload of the render child of component id
childOnunload(id) ==
    /\ instances[id].child
    /\ heatmaps' = spliced(heatmaps, id)
    /\ instances' = [instances EXCEPT ![id].status = "destroyed", ![id].child = FALSE]
    /\ UNCHANGED <<loaded, readableLineLength, showLineNumber, refreshedDestroyed,
                   compVars, tipVars>>

\* The css-change listener
cssChange(w) ==
    /\ loaded
    /\ refreshHeatmaps(w)
    /\ UNCHANGED <<loaded, heatmaps, readableLineLength, showLineNumber,
                   compVars, tipVars>>

\* The resize listener
resize(w) ==
    /\ loaded
    /\ refreshHeatmaps(w)
    /\ UNCHANGED <<loaded, heatmaps, readableLineLength, showLineNumber,
                   compVars, tipVars>>

\* The config-changed listener
configChanged(newReadableLineLength, newShowLineNumber, w) ==
    /\ loaded
    /\ IF readableLineLength # newReadableLineLength \/ showLineNumber # newShowLineNumber
       THEN /\ readableLineLength' = newReadableLineLength
            /\ showLineNumber' = newShowLineNumber
            /\ refreshHeatmaps(w)
       ELSE UNCHANGED <<readableLineLength, showLineNumber, instances,
                        refreshedDestroyed>>
    /\ UNCHANGED <<loaded, heatmaps, compVars, tipVars>>

\* Plugin.onunload; the host drops the processor and the listeners with it
onunload ==
    /\ loaded
    /\ loaded' = FALSE
    /\ instances' = [id \in Ids |->
                        IF \E i \in 1..Len(heatmaps) : heatmaps[i] = id
                        THEN [instances[id] EXCEPT !.status = "destroyed"]
                        ELSE instances[id]]
    /\ heatmaps' = <<>>
    /\ UNCHANGED <<readableLineLength, showLineNumber, refreshedDestroyed,
                   compVars, tipVars>>

----------------------------------------------------------------------------
(* Initial state: the plugin loaded, no component constructed yet *)

Init ==
    /\ mounted = FALSE
    /\ dataPoints = <<>>
    /\ width = DefaultWidth
    /\ fontColor = "#666"
    /\ fontSize = DefaultFontSize
    /\ cellSize = Int2Rat(DefaultFontSize)
    /\ height = Int2Rat(0)
    /\ weekCount = 0
    /\ colorScale = ScaleOf(<<>>)
    /\ dirty = FALSE
    /\ svg = <<>>
    /\ tooltipRef = [textContent |-> <<>>, visibility |-> "", display |-> "none",
                     left |-> Int2Rat(0), top |-> 0]
    /\ layout = [svgRect |-> [x |-> 0, y |-> 0, width |-> 0], tooltipWidth |-> 0,
                 tooltipHeight |-> 0, targetRect |-> [x |-> 0, y |-> 0]]
    /\ console = <<>>
    /\ call = [op |-> "none", newWidth |-> 0]
    /\ loaded = TRUE
    /\ heatmaps = <<>>
    /\ instances = [id \in Ids |-> [status |-> "none", child |-> FALSE, width |-> 0]]
    /\ readableLineLength = FALSE
    /\ showLineNumber = FALSE
    /\ refreshedDestroyed = FALSE

----------------------------------------------------------------------------
(* Inputs *)

Midnight(day) == day * TicksPerDay

LastTick(day) == day * TicksPerDay + (TicksPerDay - 1)

Points(ticks, cs) == {[date |-> t, count |-> c] : t \in ticks, c \in cs}

\* The date-ascending sequences of one or two points
EndpointData(ticks, cs) ==
    {<<p>> : p \in Points(ticks, cs)} \cup
    {pq \in {<<p, q>> : p \in Points(ticks, cs), q \in Points(ticks, cs)} :
        pq[1].date <= pq[2].date}

\* n points a day apart from start, as the host's generateRandomData spaces them
Daily(start, n, c) == [i \in 1..n |-> [date |-> start + (i - 1) * TicksPerDay, count |-> c]]

FontInputs == {<<"#666", 14>>, <<"#dcddde", 16>>}

\* The component under arbitrary calls: three instants around a Monday
\* midnight, counts zero and above the domain floor
DataInputs ==
    {<<>>} \cup
    EndpointData({LastTick(Jan1st2024 - 1), Midnight(Jan1st2024), Midnight(Jan1st2024 + 1)},
                 {0, 12})

\* getEditorWidth gives the mount a width >= 0; refreshSVG is also called
\* with a negative one
MountWidths == {0, 1, 200}

WidthInputs == {-5, 0, 1, 200}

\* The calendar: every pair of instants in a window of SpanDays days, and
\* daily runs of up to MaxDaily days
CalendarTicks == Midnight(Jan1st2024) .. LastTick(Jan1st2024 + SpanDays - 1)

CalendarInputs ==
    EndpointData(CalendarTicks, {5}) \cup
    {Daily(t, n, 5) : t \in CalendarTicks, n \in 1..MaxDaily}

CalendarRefreshInputs == {Daily(t, MaxDaily, 5) : t \in CalendarTicks}

\* The colour scale: two days of data with every maximum up to MaxCount
ScaleInputs ==
    {<<>>} \cup
    {<<[date |-> Midnight(Jan1st2024), count |-> c],
       [date |-> LastTick(Jan1st2024 + 1), count |-> c]>> : c \in 0..MaxCount} \cup
    {<<[date |-> Midnight(Jan1st2024), count |-> c],
       [date |-> LastTick(Jan1st2024 + 1), count |-> 0]>> : c \in 0..MaxCount}

\* The tooltip: a two-day heatmap and the measurements a hover can read
TooltipData == Daily(Midnight(Jan1st2024), 2, 5) \o Daily(LastTick(Jan1st2024 + 1), 1, 5)

SvgRects == {[x |-> x, y |-> 0, width |-> sw] :
                x \in {0, 3}, sw \in {MaxSurface - 4, MaxSurface}}

EditorWidths == {0, 600, 900}

----------------------------------------------------------------------------
(* Specifications *)

\* The component under any sequence of mount and refreshSVG calls
Next ==
    \/ \E dp \in DataInputs, f \in FontInputs :
          \/ \E w \in MountWidths : Mount(dp, w, f[1], f[2])
          \/ \E w \in WidthInputs : refreshSVG(dp, w, f[1], f[2])
    \/ flush

Spec == Init /\ [][Next]_vars

\* The component over calendar ranges
NextCalendar ==
    \/ \E dp \in CalendarInputs : Mount(dp, 200, "#666", 14)
    \/ \E dp \in CalendarRefreshInputs : refreshSVG(dp, 200, "#666", 14)
    \/ flush

SpecCalendar == Init /\ [][NextCalendar]_vars

\* The component over data with every maximum count
NextScale ==
    \/ \E dp \in ScaleInputs :
          \/ Mount(dp, 200, "#666", 14)
          \/ refreshSVG(dp, 200, "#666", 14)
    \/ flush

SpecScale == Init /\ [][NextScale]_vars

\* The component under hovers
NextTooltip ==
    \/ Mount(TooltipData, 200, "#666", 14)
    \/ \E k \in 1..2, svgRect \in SvgRects, tooltipWidth \in 1..MaxTooltip :
          \E cellX \in svgRect.x .. (svgRect.x + svgRect.width) :
              mouseover(k, [x |-> cellX, y |-> 40], svgRect, tooltipWidth, 20)
    \/ mouseout

SpecTooltip == Init /\ [][NextTooltip]_vars

\* The plugin and its registry of components
NextPlugin ==
    \/ \E w \in EditorWidths : codeBlockProcessor(w)
    \/ \E id \in Ids : childOnunload(id)
    \/ \E w \in EditorWidths : cssChange(w)
    \/ \E w \in EditorWidths : resize(w)
    \/ \E r \in BOOLEAN, n \in BOOLEAN, w \in EditorWidths : configChanged(r, n, w)
    \/ onunload

SpecPlugin == Init /\ [][NextPlugin]_vars

----------------------------------------------------------------------------
(* Properties *)

Rendered == mounted /\ svg # <<>>

Cells == svg[1].cells

\* The calendar days (days since 1970-01-01) of the first and last data point
StartDay == dataPoints[1].date \div TicksPerDay

EndDay == dataPoints[Len(dataPoints)].date \div TicksPerDay

\* The number of the Monday-to-Sunday week a day lies in (1970-01-05 was a Monday)
WeekOf(day) == (day + 3) \div 7

\* Monday = 0 .. Sunday = 6
WeekdayOf(day) == (day + 3) % 7

CellOfDay(cell, day) ==
    /\ cell.date \div TicksPerDay = day
    /\ cell.week = WeekOf(day) - WeekOf(StartDay)
    /\ cell.day = WeekdayOf(day)

\* C1: a render over non-empty data draws exactly one cell for every calendar
\* day from the first data point's day to the last one's, both included, with
\* weekIndex the Monday-week distance from the first day and dayIndex the
\* weekday counted from Monday.
C1_EveryDayHasOneCell ==
    Rendered =>
        /\ Len(Cells) = EndDay - StartDay + 1
        /\ \A k \in 1..Len(Cells) : CellOfDay(Cells[k], StartDay + k - 1)

\* C2: every cell drawn by the most recent accepted render is filled by the
\* colour scale built from that render's data.
C2_FillFromCurrentData ==
    Rendered =>
        \A k \in 1..Len(Cells) :
            Cells[k].fill = ApplyScale(ScaleOf(dataPoints), Cells[k].count)

\* A render was attempted by the step's handler: a mount, or a refreshSVG
\* with a positive width
RenderAttempted(c) == c.op = "mount" \/ (c.op = "refreshSVG" /\ c.newWidth > 0)

\* C3: a render attempted with empty data leaves the surface's content as it was.
C3_EmptyDataKeepsSurface ==
    [][(RenderAttempted(call') /\ dataPoints' = <<>>) => svg' = svg]_vars

\* C4: refreshSVG with newWidth <= 0 changes neither the props nor the
\* geometry nor the surface, and runs no render (it writes only its diagnostic).
C4_InvalidWidthIsNoOp ==
    [][(call'.op = "refreshSVG" /\ call'.newWidth <= 0) =>
          /\ UNCHANGED <<dataPoints, width, fontColor, fontSize, cellSize, height,
                         weekCount, colorScale, dirty, svg, mounted>>
          /\ console' = << <<"newWidth illegal!", call'.newWidth>> >>]_vars

\* C4 witness: a rejected refresh of a rendered heatmap
C4_Witness ==
    /\ Rendered
    /\ call.op = "refreshSVG"
    /\ call.newWidth <= 0
    /\ width = 200
    /\ Len(Cells) > 0

\* C5: a render over non-empty data leaves 0 < cellSize <= 14.
C5_CellSizePositive ==
    Rendered => /\ RatLT(Int2Rat(0), cellSize)
                /\ RatLE(cellSize, Int2Rat(14))

\* C6: the weekCount of a render is the number of Mondays after the first
\* day up to the last day, plus one: the Monday-week distance plus one, >= 1,
\* 3 for 2024-01-01..2024-01-15 and 2 for 2024-01-01..2024-01-08.
C6_WeekCount ==
    Rendered =>
        /\ weekCount = WeekOf(EndDay) - WeekOf(StartDay) + 1
        /\ weekCount =
              Cardinality({d \in (StartDay + 1)..EndDay : WeekdayOf(d) = 0}) + 1
        /\ weekCount >= 1
        /\ (StartDay = Jan1st2024 /\ EndDay = Jan1st2024 + 14) => weekCount = 3
        /\ (StartDay = Jan1st2024 /\ EndDay = Jan1st2024 + 7) => weekCount = 2

\* C6 witness: data from 2024-01-01 to 2024-01-15 rendered with three weeks
C6_Witness ==
    /\ Rendered
    /\ StartDay = Jan1st2024
    /\ EndDay = Jan1st2024 + 14
    /\ weekCount = 3

\* The maximum count the current colour scale was built from
ScaleMax == colorScale.d2.num

\* C7 as stated: over [0, maxCount] the green channel does not decrease.
C7_GreenNonDecreasing ==
    (mounted /\ ~colorScale.negInf) =>
        \A a \in 0..ScaleMax : \A b \in (a + 1)..ScaleMax :
            Green(ApplyScale(colorScale, b)) >= Green(ApplyScale(colorScale, a))

\* C7 amended: over [0, maxCount] the green channel does not increase (the
\* ramp runs from the light #ebedf0 to the dark #196127).
C7_GreenNonIncreasing ==
    (mounted /\ ~colorScale.negInf) =>
        \A a \in 0..ScaleMax : \A b \in (a + 1)..ScaleMax :
            Green(ApplyScale(colorScale, b)) <= Green(ApplyScale(colorScale, a))

\* C7 witness: a scale over [0, 6, 12] whose green falls from 237 to 201 to 97
C7_Witness ==
    /\ mounted
    /\ ~colorScale.negInf
    /\ ScaleMax = 12
    /\ Green(ApplyScale(colorScale, 0)) = 237
    /\ Green(ApplyScale(colorScale, 6)) = 201
    /\ Green(ApplyScale(colorScale, 12)) = 97

\* C8: for maxCount >= 1 every count >= maxCount maps to #196127 and every
\* count <= 0 maps to #ebedf0.
C8_ClampToEndpoints ==
    (mounted /\ ~colorScale.negInf /\ ScaleMax >= 1) =>
        /\ \A c \in ScaleMax..(ScaleMax + 3) :
              ApplyScale(colorScale, c) = <<25, 97, 39>>
        /\ \A c \in -3..0 :
              ApplyScale(colorScale, c) = <<235, 237, 240>>

Shown == tooltipRef.display = "block"

\* The anchor relative to the surface, and half the tooltip's width
Anchor == Int2Rat(layout.targetRect.x - layout.svgRect.x)

HalfTooltip == Rat(layout.tooltipWidth, 2)

SurfaceWidth == Int2Rat(layout.svgRect.width)

CrossesLeft == RatLT(RatSub(Anchor, HalfTooltip), Int2Rat(0))

CrossesRight == RatLT(SurfaceWidth, RatAdd(Anchor, HalfTooltip))

WithinSurface ==
    /\ RatLE(Int2Rat(0), RatSub(tooltipRef.left, HalfTooltip))
    /\ RatLE(RatAdd(tooltipRef.left, HalfTooltip), SurfaceWidth)

\* C9 as stated: after a show the tooltip never overflows the surface; pinned
\* at tooltipWidth/2 when it would cross the left edge, at
\* surfaceWidth - tooltipWidth/2 when it would cross the right edge.
C9_TooltipNeverOverflows ==
    Shown =>
        /\ WithinSurface
        /\ CrossesLeft => tooltipRef.left = HalfTooltip
        /\ CrossesRight => tooltipRef.left = RatSub(SurfaceWidth, HalfTooltip)

\* C9 amended: a tooltip no wider than the surface never overflows it; it is
\* pinned at tooltipWidth/2 when it would cross the left edge, and at
\* surfaceWidth - tooltipWidth/2 when it would cross the right edge and not
\* the left one.
C9_TooltipClampedWhenItFits ==
    Shown =>
        /\ layout.tooltipWidth <= layout.svgRect.width => WithinSurface
        /\ CrossesLeft => tooltipRef.left = HalfTooltip
        /\ (CrossesRight /\ ~CrossesLeft) =>
              tooltipRef.left = RatSub(SurfaceWidth, HalfTooltip)

\* C9 witness: a fitting tooltip pinned to the right edge
C9_Witness ==
    /\ Shown
    /\ tooltipRef.visibility = "visible"
    /\ layout.tooltipWidth <= layout.svgRect.width
    /\ CrossesRight
    /\ tooltipRef.left = RatSub(SurfaceWidth, HalfTooltip)
    /\ RatLT(tooltipRef.left, Anchor)

\* C10: the plugin's list holds only components created and not destroyed,
\* each once; no refresh reaches a destroyed component; the list is empty
\* after the plugin's onunload.
C10_RegistryHoldsLiveComponents ==
    /\ \A i \in 1..Len(heatmaps) : instances[heatmaps[i]].status = "live"
    /\ \A i, j \in 1..Len(heatmaps) : heatmaps[i] = heatmaps[j] => i = j
    /\ ~refreshedDestroyed
    /\ ~loaded => heatmaps = <<>>

\* C10 witness: the second of three components unloaded, the others refreshed
\* to a new width afterwards
C10_Witness ==
    /\ loaded
    /\ heatmaps = <<1, 3>>
    /\ instances[2].status = "destroyed"
    /\ instances[2].width = 600
    /\ instances[1].width = 900
    /\ instances[3].width = 900

====
